---- MODULE Spec2Model ----
(***************************************************************************)
(* The node-graph image editor of src/components/NodeEditor.tsx:           *)
(* evaluateGraph (the fixed-point pass over nodes and edges) and the image *)
(* kernels it dispatches to (createSolidImage, generateGradientImage,      *)
(* generatePerlinNoise, blendImages), and the component NodeEditor that    *)
(* holds the node and edge state, re-evaluates the graph and writes the    *)
(* previews back.                                                          *)
(*                                                                         *)
(* Numbers.  Pixel channels are integers 0..255.  Opacity is a fraction    *)
(* on/OpacityDen; with OpacityDen = 4 every opacity is a dyadic rational,  *)
(* so the double arithmetic of the source is exact and the integer         *)
(* arithmetic below computes the same values.  NaN never appears as a      *)
(* value: wherever the source computes NaN and stores it in a              *)
(* Uint8ClampedArray the model writes the 0 that the store produces.       *)
(***************************************************************************)
EXTENDS Integers, Sequences, FiniteSets, TLC

VARIABLES
    nodes,       \* evaluateGraph's argument nodes: Node[]
    edges,       \* evaluateGraph's argument edges: Edge[]
    outputs,     \* const outputs: Record<string, ImageData | null>
    visited,     \* const visited = new Set<string>()
    progress,    \* let progress
    idx,         \* position of `for (const node of nodes)`
    pc,          \* control point of evaluateGraph
    passes,      \* observation: number of times the while body was entered
    nextRef,     \* observation: identity of the next ImageData object allocated
    dispatched,  \* observation: ids whose switch (kernel dispatch) ran, in order
    call,        \* a direct kernel call (kernel specification)
    ret,         \* its return value
    idRef,       \* NodeEditor: idRef.current
    ctxOpen,     \* NodeEditor: the state ctxOpen
    ctxTarget,   \* NodeEditor: the state ctxTarget
    memoStale,   \* NodeEditor: nodes or edges is not the array useMemo last saw
    effectDue,   \* NodeEditor: outputs is not the object the effect last saw
    ops          \* observation: number of user inputs handled

editorVars == <<idRef, ctxOpen, ctxTarget, memoStale, effectDue, ops>>

vars == <<nodes, edges, outputs, visited, progress, idx, pc, passes, nextRef,
          dispatched, call, ret, editorVars>>

----------------------------------------------------------------------------
(* Bounds of the model *)

MaxNodes == 3
MaxEdges == 2
MaxSize == 2
MaxOps == 3   \* user inputs handled in one behaviour of the editor
MaxId == 5    \* largest id idRef hands out

(* opacity = on / OpacityDen *)
OpacityDen == 4

----------------------------------------------------------------------------
(* Values *)

(* ImageData | null: the empty sequence is null, <<img>> an object *)
Null == <<>>
Some(img) == <<img>>

Min(a, b) == IF a < b THEN a ELSE b
Max(a, b) == IF a > b THEN a ELSE b
Abs(a) == IF a < 0 THEN -a ELSE a

(* Math.round(n / d) for d > 0: floor(n/d + 1/2) *)
Round(n, d) == (2 * n + d) \div (2 * d)

(* Math.ceil(n / d) for d # 0 *)
CeilDiv(n, d) == IF d > 0 THEN -((-n) \div d) ELSE -(n \div (-d))

(* Math.floor(n / d) for d # 0 *)
FloorDiv(n, d) == IF d > 0 THEN n \div d ELSE (-n) \div (-d)

(* a store into a Uint8ClampedArray element *)
ToUint8Clamp(v) == IF v < 0 THEN 0 ELSE IF v > 255 THEN 255 ELSE v

(* outcomes of a kernel call *)
KImage(w, h, d) == [tag |-> "image", width |-> w, height |-> h, data |-> d]
KNull == [tag |-> "null", width |-> 0, height |-> 0, data |-> <<>>]
KThrow == [tag |-> "throw", width |-> 0, height |-> 0, data |-> <<>>]
KDiverge == [tag |-> "diverge", width |-> 0, height |-> 0, data |-> <<>>]

(* new ImageData(data, sw, sh): throws on a zero dimension or a length that
   is not 4 * sw * sh *)
NewImageData(d, w, h) ==
    IF w <= 0 \/ h <= 0 \/ Len(d) # 4 * w * h THEN KThrow ELSE KImage(w, h, d)

----------------------------------------------------------------------------
(* colorHexToRgb.  A colour string is a sequence of characters: 0..15 are
   the hex digits, Hash is '#'. *)

Hash == 16

RemoveFirstHash(hex) ==
    IF \E i \in 1..Len(hex) : hex[i] = Hash
    THEN LET i == CHOOSE j \in 1..Len(hex) :
                     hex[j] = Hash /\ \A k \in 1..(j - 1) : hex[k] # Hash
         IN [k \in 1..(Len(hex) - 1) |-> IF k < i THEN hex[k] ELSE hex[k + 1]]
    ELSE hex

RECURSIVE ParseHex(_)
ParseHex(h) ==
    IF Len(h) = 0 THEN 0
    ELSE 16 * ParseHex(SubSeq(h, 1, Len(h) - 1)) + h[Len(h)]

colorHexToRgb(hex) ==
    LET h == RemoveFirstHash(hex)
        full == IF Len(h) = 3
                THEN <<h[1], h[1], h[2], h[2], h[3], h[3]>>
                ELSE h
        bigint == ParseHex(full)
    IN [r |-> (bigint \div 65536) % 256,
        g |-> (bigint \div 256) % 256,
        b |-> bigint % 256]

----------------------------------------------------------------------------
(* createSolidImage *)

createSolidImage(width, height, r, g, b, a) ==
    LET px == <<r, g, b, a>>
        d == [i \in 1..(width * height * 4) |-> px[((i - 1) % 4) + 1]]
    IN NewImageData(d, width, height)

----------------------------------------------------------------------------
(* generateGradientImage.  t = num/den with den = width-1 or height-1; for
   den = 0 the source divides 0 by 0, t is NaN, every Math.round is NaN and
   the stores write 0. *)

GradientChannel(ca, cb, num, den) ==
    IF den = 0 THEN 0
    ELSE ToUint8Clamp(Round(ca * (den - num) + cb * num, den))

generateGradientImage(width, height, a, b, direction) ==
    LET d == [i \in 1..(width * height * 4) |->
                LET p == (i - 1) \div 4
                    c == (i - 1) % 4
                    x == p % width
                    y == p \div width
                    num == IF direction = "horizontal" THEN x ELSE y
                    den == IF direction = "horizontal" THEN width - 1
                                                        ELSE height - 1
                IN CASE c = 0 -> GradientChannel(a.r, b.r, num, den)
                     [] c = 1 -> GradientChannel(a.g, b.g, num, den)
                     [] c = 2 -> GradientChannel(a.b, b.b, num, den)
                     [] OTHER -> 255]
    IN NewImageData(d, width, height)

----------------------------------------------------------------------------
(* generatePerlinNoise.

   scale = 0: width/0 and height/0 are Infinity (NaN for a 0 dividend), so
   for height > 0 the loop `for (gy = 0; gy < gridH; gy++)` has the bound
   Infinity and never ends; it allocates on every iteration.  The call does
   not return: KDiverge.

   scale # 0: gradX has the rows 0..gridH-1, each with the columns
   0..gridW-1.  Reading gradX[r][c] with r outside the rows is a TypeError
   (index of undefined); with r inside and c outside the columns it is
   undefined, the noise value is NaN and the store writes 0.  At a grid
   point (dx = dy = 0, all four corners defined) n = 0 and
   val = floor(0.5 * 255) = 127 whatever the seed.  A pixel strictly inside
   a cell has a value made of cos/sin of the mulberry32 angles: the model
   covers no such pixel (PerlinScales stops at 1), and PerlinValue has no
   case for it. *)

PerlinRowFault(y, scale, gridH) ==
    LET y0 == FloorDiv(y, scale)
    IN ~(y0 \in 0..(gridH - 1) /\ (y0 + 1) \in 0..(gridH - 1))

PerlinValue(x, y, scale, gridW) ==
    LET x0 == FloorDiv(x, scale)
    IN CASE ~(x0 \in 0..(gridW - 1) /\ (x0 + 1) \in 0..(gridW - 1)) -> 0
         [] x0 \in 0..(gridW - 1) /\ (x0 + 1) \in 0..(gridW - 1)
            /\ x % Abs(scale) = 0 /\ y % Abs(scale) = 0 -> 127

generatePerlinNoise(width, height, scale, seed) ==
    IF scale = 0
    THEN IF height > 0 THEN KDiverge ELSE NewImageData(<<>>, width, height)
    ELSE LET gridW == CeilDiv(width, scale) + 2
             gridH == CeilDiv(height, scale) + 2
         IN IF \E y \in 0..(height - 1) : \E x \in 0..(width - 1) :
                   PerlinRowFault(y, scale, gridH)
            THEN KThrow
            ELSE NewImageData(
                   [i \in 1..(width * height * 4) |->
                      LET p == (i - 1) \div 4
                          c == (i - 1) % 4
                      IN IF c = 3 THEN 255
                         ELSE PerlinValue(p % width, p \div width, scale, gridW)],
                   width, height)

----------------------------------------------------------------------------
(* blendImages.  a and b are ImageData | null; opacity = on / OpacityDen. *)

blendChannel(A, B, mode) ==
    CASE mode = "add" -> Min(255, A + B)
      [] mode = "multiply" -> Round(A * B, 255)
      [] mode = "overlay" ->
            IF A < 128 THEN Round(2 * A * B, 255)
            ELSE 255 - Round(2 * (255 - A) * (255 - B), 255)
      [] mode = "screen" -> 255 - Round((255 - A) * (255 - B), 255)
      [] mode = "difference" -> Abs(A - B)
      [] OTHER -> B

(* out[idx] = Math.round(ad[idx] * (1 - opacity) + blended * opacity) *)
OpacityMix(A, blended, on) ==
    ToUint8Clamp(Round(A * (OpacityDen - on) + blended * on, OpacityDen))

(* One element of `out`.  A read past the end of ad or bd is undefined: the
   arithmetic on it is NaN and the store writes 0. *)
BlendElement(ad, bd, i, mode, on) ==
    LET c == (i - 1) % 4
    IN IF i > Len(ad) \/ i > Len(bd) THEN 0
       ELSE IF c = 3 THEN ToUint8Clamp(Max(ad[i], bd[i]))
       ELSE OpacityMix(ad[i], blendChannel(ad[i], bd[i], mode), on)

blendImages(a, b, mode, on) ==
    IF a = Null /\ b = Null THEN KNull
    ELSE LET img == IF a # Null THEN a[1] ELSE b[1]
             width == img.width
             height == img.height
             zeros == [i \in 1..(width * height * 4) |-> 0]
             ad == IF a # Null THEN a[1].data ELSE zeros
             bd == IF b # Null THEN b[1].data ELSE zeros
         IN NewImageData(
              [i \in 1..(width * height * 4) |-> BlendElement(ad, bd, i, mode, on)],
              width, height)

----------------------------------------------------------------------------
(* evaluateGraph.

   A node is [id, type, color, colorB, direction, size, scale, seed, mode,
   opacity]: id, type and the fields of node.data (color doubles as colorA);
   a field the node's kind does not read holds a filler.  An edge is
   [source, target, targetHandle]. *)

(* mutant of Incoming: the index built on e.source instead of e.target *)
IncomingBySource(es, id) == SelectSeq(es, LAMBDA e : e.source = id)

(* incoming[id] || [] *)
Incoming(es, id) == SelectSeq(es, LAMBDA e : e.target = id)

(* getOutput: outputs[nodeId] ?? null *)
getOutput(outs, nodeId) == IF nodeId \in DOMAIN outs THEN outs[nodeId] ELSE Null

(* mutant of Ready: the readiness test left out *)
ReadyAlways(inc, outs) == TRUE

(* mutant of Ready: a null output taken for a missing one
   (outputs[e.source] != null) *)
ReadyNonNull(inc, outs) ==
    \A i \in 1..Len(inc) : getOutput(outs, inc[i].source) # Null

(* inc.every(e => outputs[e.source] !== undefined) *)
Ready(inc, outs) == \A i \in 1..Len(inc) : inc[i].source \in DOMAIN outs

(* inc.find(e => e.targetHandle === handle): <<e>> or <<>> for undefined *)
FindHandle(inc, handle) ==
    LET hit == SelectSeq(inc, LAMBDA e : e.targetHandle = handle)
    IN IF Len(hit) = 0 THEN <<>> ELSE <<hit[1]>>

(* incX ? getOutput(incX.source) : null *)
PortInput(inc, handle, outs) ==
    LET e == FindHandle(inc, handle)
    IN IF e = <<>> THEN Null ELSE getOutput(outs, e[1].source)

(* the kernel call of the switch, for the kinds that call one *)
Dispatch(node, inc, outs) ==
    CASE node.type = "createImage" ->
            LET c == colorHexToRgb(node.color)
            IN createSolidImage(node.size, node.size, c.r, c.g, c.b, 255)
      [] node.type = "gradient" ->
            generateGradientImage(node.size, node.size,
                                  colorHexToRgb(node.color),
                                  colorHexToRgb(node.colorB), node.direction)
      [] node.type = "perlin" ->
            generatePerlinNoise(node.size, node.size, node.scale, node.seed)
      [] node.type = "combine" ->
            blendImages(PortInput(inc, "a", outs), PortInput(inc, "b", outs),
                        node.mode, node.opacity)
      [] OTHER -> KNull

(* The state of one run of evaluateGraph, as a record *)
StartState ==
    [outputs |-> << >>, visited |-> {}, progress |-> TRUE, idx |-> 1,
     pc |-> "while", passes |-> 0, nextRef |-> 1, dispatched |-> << >>]

(* mutant of Record: `progress = true` left out *)
RecordNoProgress(s, ns, node, out, allocated) ==
    [s EXCEPT !.outputs = [i \in DOMAIN s.outputs \cup {node.id} |->
                              IF i = node.id THEN out ELSE s.outputs[i]],
              !.visited = s.visited \cup {node.id},
              !.nextRef = IF allocated THEN s.nextRef + 1 ELSE s.nextRef,
              !.dispatched = Append(s.dispatched, node.id),
              !.idx = s.idx + 1,
              !.pc = IF s.idx + 1 > Len(ns) THEN "while" ELSE "for"]

(* outputs[node.id] = out; visited.add(node.id); progress = true, then the
   next element of the for loop, or the while test after the last one *)
Record(s, ns, node, out, allocated) ==
    [s EXCEPT !.outputs = [i \in DOMAIN s.outputs \cup {node.id} |->
                              IF i = node.id THEN out ELSE s.outputs[i]],
              !.visited = s.visited \cup {node.id},
              !.progress = TRUE,
              !.nextRef = IF allocated THEN s.nextRef + 1 ELSE s.nextRef,
              !.dispatched = Append(s.dispatched, node.id),
              !.idx = s.idx + 1,
              !.pc = IF s.idx + 1 > Len(ns) THEN "while" ELSE "for"]

(* `continue` *)
Continue(s, ns) ==
    [s EXCEPT !.idx = s.idx + 1,
              !.pc = IF s.idx + 1 > Len(ns) THEN "while" ELSE "for"]

(* mutant of VisitNode: no try/catch around the switch, a thrown error
   leaves evaluateGraph *)
VisitNodeNoCatch(s, ns, es, node, oom) ==
    LET inc == Incoming(es, node.id)
    IN IF node.type = "display"
       THEN Record(s, ns, node, PortInput(inc, "in", s.outputs), FALSE)
       ELSE LET k == Dispatch(node, inc, s.outputs)
            IN CASE k.tag = "image" ->
                      Record(s, ns, node,
                             Some([ref |-> s.nextRef, width |-> k.width,
                                   height |-> k.height, data |-> k.data]),
                             TRUE)
                 [] k.tag \in {"diverge", "throw"} ->
                      [s EXCEPT !.pc = "aborted",
                                !.dispatched = Append(s.dispatched, node.id)]
                 [] OTHER -> Record(s, ns, node, Null, FALSE)

(* The body of the for loop for a ready, unvisited node: try { switch }
   catch { out = null }, then the recording.  A display node's out is the
   object stored for its source; a kernel's image is a new object.  A
   kernel that does not return runs until the engine is out of memory: oom
   is what the engine then does, "throw" (a catchable error, caught here)
   or "abort" (the script is killed; evaluateGraph never returns). *)
VisitNode(s, ns, es, node, oom) ==
    LET inc == Incoming(es, node.id)
    IN IF node.type = "display"
       THEN Record(s, ns, node, PortInput(inc, "in", s.outputs), FALSE)
       ELSE LET k == Dispatch(node, inc, s.outputs)
            IN CASE k.tag = "image" ->
                      Record(s, ns, node,
                             Some([ref |-> s.nextRef, width |-> k.width,
                                   height |-> k.height, data |-> k.data]),
                             TRUE)
                 [] k.tag = "diverge" /\ oom = "abort" ->
                      [s EXCEPT !.pc = "aborted",
                                !.dispatched = Append(s.dispatched, node.id)]
                 [] OTHER -> Record(s, ns, node, Null, FALSE)

(* while (progress) { progress = false; for (...) *)
EnterWhile(s, ns) ==
    [s EXCEPT !.progress = FALSE, !.passes = s.passes + 1, !.idx = 1,
              !.pc = IF Len(ns) = 0 THEN "while" ELSE "for"]

(* One step of evaluateGraph from state s *)
StepOf(s, ns, es, oom) ==
    CASE s.pc = "while" /\ s.progress -> EnterWhile(s, ns)
      [] s.pc = "while" /\ ~s.progress -> [s EXCEPT !.pc = "done"]
      [] s.pc = "for" ->
            LET node == ns[s.idx]
            IN IF node.id \in s.visited THEN Continue(s, ns)
               ELSE IF ~Ready(Incoming(es, node.id), s.outputs)
                    THEN Continue(s, ns)
                    ELSE VisitNode(s, ns, es, node, oom)
      [] OTHER -> s

(* evaluateGraph(ns, es) as a function: the state in which the run ends *)
RECURSIVE RunFrom(_, _, _, _)
RunFrom(s, ns, es, oom) ==
    IF s.pc \in {"done", "aborted"} THEN s
    ELSE RunFrom(StepOf(s, ns, es, oom), ns, es, oom)

evaluateGraph(ns, es, oom) == RunFrom(StartState, ns, es, oom)

----------------------------------------------------------------------------
(* The graphs evaluateGraph is run on.

   Node ids are 1..Len(nodes) in list order; ids are opaque and unique
   (idRef.current++), so this loses no node list.  An edge may name a source
   or a target that is not in the node list. *)

ColorIndigo == <<Hash, 4, 15, 4, 6, 14, 5>>    \* '#4f46e5'
ColorBlue == <<Hash, 7, 10, 10, 2, 15, 7>>     \* '#7aa2f7'
ColorViolet == <<Hash, 10, 7, 8, 11, 15, 10>>  \* '#a78bfa'

NodeData(type, color, colorB, direction, size, scale, mode, opacity) ==
    [type |-> type, color |-> color, colorB |-> colorB,
     direction |-> direction, size |-> size, scale |-> scale, seed |-> 0,
     mode |-> mode, opacity |-> opacity]

CreateImageData(size) ==
    NodeData("createImage", ColorIndigo, ColorIndigo, "horizontal", size, 1,
             "add", OpacityDen)

GradientData(size, direction) ==
    NodeData("gradient", ColorBlue, ColorViolet, direction, size, 1, "add",
             OpacityDen)

PerlinData(size, scale) ==
    NodeData("perlin", ColorIndigo, ColorIndigo, "horizontal", size, scale,
             "add", OpacityDen)

CombineData(mode, opacity) ==
    NodeData("combine", ColorIndigo, ColorIndigo, "horizontal", 1, 1, mode,
             opacity)

DisplayData ==
    NodeData("display", ColorIndigo, ColorIndigo, "horizontal", 1, 1, "add",
             OpacityDen)

(* node.data of the nodes of a graph, one of each kind: a solid image, a
   gradient of size 0 (the ImageData constructor throws), a noise of scale
   0 (the kernel does not return), a combine and a display *)
DataChoices ==
    {CreateImageData(1), GradientData(0, "horizontal"), PerlinData(1, 0),
     CombineData("add", OpacityDen), DisplayData}

WithId(d, id) ==
    [id |-> id, type |-> d.type, color |-> d.color, colorB |-> d.colorB,
     direction |-> d.direction, size |-> d.size, scale |-> d.scale,
     seed |-> d.seed, mode |-> d.mode, opacity |-> d.opacity]

NodeLists ==
    UNION {{[i \in 1..n |-> WithId(f[i], i)] : f \in [1..n -> DataChoices]} :
           n \in 0..MaxNodes}

Handles == {"a", "b", "in"}

EdgeChoices ==
    [source : 1..MaxNodes, target : 1..MaxNodes, targetHandle : Handles]

EdgeLists == UNION {[1..m -> EdgeChoices] : m \in 0..MaxEdges}

(* what the engine does when a script exhausts memory *)
OomOutcomes == {"throw", "abort"}

----------------------------------------------------------------------------
(* The run of evaluateGraph as a state machine *)

Cur ==
    [outputs |-> outputs, visited |-> visited, progress |-> progress,
     idx |-> idx, pc |-> pc, passes |-> passes, nextRef |-> nextRef,
     dispatched |-> dispatched]

Becomes(s) ==
    /\ outputs' = s.outputs
    /\ visited' = s.visited
    /\ progress' = s.progress
    /\ idx' = s.idx
    /\ pc' = s.pc
    /\ passes' = s.passes
    /\ nextRef' = s.nextRef
    /\ dispatched' = s.dispatched
    /\ UNCHANGED <<nodes, edges, call, ret, editorVars>>

NoCall == [fn |-> "none"]

(* no component is mounted *)
NoEditor ==
    /\ idRef = 1
    /\ ctxOpen = FALSE
    /\ ctxTarget = [kind |-> "pane"]
    /\ memoStale = FALSE
    /\ effectDue = FALSE
    /\ ops = 0

Init ==
    /\ nodes \in NodeLists
    /\ edges \in EdgeLists
    /\ outputs = StartState.outputs
    /\ visited = StartState.visited
    /\ progress = StartState.progress
    /\ idx = StartState.idx
    /\ pc = StartState.pc
    /\ passes = StartState.passes
    /\ nextRef = StartState.nextRef
    /\ dispatched = StartState.dispatched
    /\ call = NoCall
    /\ ret = KNull
    /\ NoEditor

(* while (progress) holds: a pass begins *)
WhileEnter ==
    /\ pc = "while"
    /\ progress
    /\ Becomes(EnterWhile(Cur, nodes))

(* while (progress) fails: return outputs *)
WhileExit ==
    /\ pc = "while"
    /\ ~progress
    /\ Becomes(StepOf(Cur, nodes, edges, "throw"))

(* if (visited.has(node.id)) continue *)
ForSkipVisited ==
    /\ pc = "for"
    /\ nodes[idx].id \in visited
    /\ Becomes(Continue(Cur, nodes))

(* if (!ready) continue *)
ForSkipNotReady ==
    /\ pc = "for"
    /\ nodes[idx].id \notin visited
    /\ ~Ready(Incoming(edges, nodes[idx].id), outputs)
    /\ Becomes(Continue(Cur, nodes))

(* the try/catch and the recording of a ready node *)
ForVisit ==
    /\ pc = "for"
    /\ nodes[idx].id \notin visited
    /\ Ready(Incoming(edges, nodes[idx].id), outputs)
    /\ Becomes(VisitNode(Cur, nodes, edges, nodes[idx], "throw"))

(* the kernel of a ready node does not return and the engine kills the
   script *)
ForVisitAbort ==
    /\ pc = "for"
    /\ nodes[idx].id \notin visited
    /\ Ready(Incoming(edges, nodes[idx].id), outputs)
    /\ nodes[idx].type # "display"
    /\ Dispatch(nodes[idx], Incoming(edges, nodes[idx].id), outputs).tag = "diverge"
    /\ Becomes(VisitNode(Cur, nodes, edges, nodes[idx], "abort"))

Next ==
    \/ WhileEnter
    \/ WhileExit
    \/ ForSkipVisited
    \/ ForSkipNotReady
    \/ ForVisit
    \/ ForVisitAbort

Spec == Init /\ [][Next]_vars

----------------------------------------------------------------------------
(* Direct kernel calls: the kernels are exported functions, and a call is
   [fn, width, height, scale, direction, mode, opacity, A, B, hasA, hasB]
   with a filler in each field fn does not read.  blend is called with two
   1 x 1 buffers of channel values A and B (null where hasA, hasB is
   FALSE); gradient and solid with the colours '#7aa2f7', '#a78bfa'. *)

ChannelSamples == {0, 1, 100, 127, 128, 200, 255}
OpacitySamples == {-OpacityDen, -1, 0, 1, OpacityDen \div 2, OpacityDen,
                   OpacityDen + 1, 2 * OpacityDen}
Modes == {"add", "multiply", "overlay", "screen", "difference"}
PerlinScales == {-2, -1, 0, 1}

KernelCall(fn, w, h, scale, dir, mode, on, A, B, hasA, hasB) ==
    [fn |-> fn, width |-> w, height |-> h, scale |-> scale, direction |-> dir,
     mode |-> mode, opacity |-> on, A |-> A, B |-> B, hasA |-> hasA,
     hasB |-> hasB]

BlendCalls ==
    {KernelCall("blend", 1, 1, 1, "horizontal", m, on, A, B, TRUE, TRUE) :
        m \in Modes, on \in OpacitySamples, A \in ChannelSamples,
        B \in ChannelSamples}
    \cup
    {KernelCall("blend", 1, 1, 1, "horizontal", m, OpacityDen, 100, 100, hA, hB) :
        m \in Modes, hA \in BOOLEAN, hB \in BOOLEAN}

GradientCalls ==
    {KernelCall("gradient", w, h, 1, d, "add", OpacityDen, 0, 0, TRUE, TRUE) :
        w \in 0..MaxSize, h \in 0..MaxSize, d \in {"horizontal", "vertical"}}

PerlinCalls ==
    {KernelCall("perlin", w, h, sc, "horizontal", "add", OpacityDen, 0, 0, TRUE, TRUE) :
        w \in 0..MaxSize, h \in 0..MaxSize, sc \in PerlinScales}

SolidCalls ==
    {KernelCall("solid", w, h, 1, "horizontal", "add", OpacityDen, A, B, TRUE, TRUE) :
        w \in 0..MaxSize, h \in 0..MaxSize, A \in {0, 255}, B \in {0, 128}}

(* the 1 x 1 buffer of channel value v, alpha 255 *)
Pixel(v) == Some([ref |-> 0, width |-> 1, height |-> 1, data |-> <<v, v, v, 255>>])

BlendArgA(c) == IF c.hasA THEN Pixel(c.A) ELSE Null
BlendArgB(c) == IF c.hasB THEN Pixel(c.B) ELSE Null

InitKernel ==
    /\ call \in BlendCalls \cup GradientCalls \cup PerlinCalls \cup SolidCalls
    /\ ret = KNull
    /\ pc = "call"
    /\ nodes = << >>
    /\ edges = << >>
    /\ outputs = StartState.outputs
    /\ visited = StartState.visited
    /\ progress = StartState.progress
    /\ idx = StartState.idx
    /\ passes = StartState.passes
    /\ nextRef = StartState.nextRef
    /\ dispatched = StartState.dispatched
    /\ NoEditor

Returns(k) ==
    /\ pc = "call"
    /\ ret' = k
    /\ pc' = IF k.tag = "diverge" THEN "diverged"
             ELSE IF k.tag = "throw" THEN "threw" ELSE "returned"
    /\ UNCHANGED <<nodes, edges, outputs, visited, progress, idx, passes,
                   nextRef, dispatched, call, editorVars>>

CallBlend ==
    /\ call.fn = "blend"
    /\ Returns(blendImages(BlendArgA(call), BlendArgB(call), call.mode,
                           call.opacity))

CallGradient ==
    /\ call.fn = "gradient"
    /\ Returns(generateGradientImage(call.width, call.height,
                                     colorHexToRgb(ColorBlue),
                                     colorHexToRgb(ColorViolet),
                                     call.direction))

CallPerlin ==
    /\ call.fn = "perlin"
    /\ Returns(generatePerlinNoise(call.width, call.height, call.scale, 0))

CallSolid ==
    /\ call.fn = "solid"
    /\ Returns(createSolidImage(call.width, call.height, call.A, call.B,
                                call.A, 255))

NextKernel == CallBlend \/ CallGradient \/ CallPerlin \/ CallSolid

SpecKernel == InitKernel /\ [][NextKernel]_vars

----------------------------------------------------------------------------
(* The component NodeEditor.

   nodes and edges are the React states of useNodesState and useEdgesState,
   outputs is the value of useMemo(() => evaluateGraph(nodes, edges)).  An
   editor node is a graph node with the fields selected and preview; an
   editor edge is [id, source, sourceHandle, target, targetHandle,
   selected], sourceHandle "" where the source leaves it undefined.  A node
   id is the number idRef.current held (the source keeps its decimal
   string).  Positions, pan and zoom are not part of the state: no handler
   below reads them.

   A state update with a new array schedules a render; the render re-runs
   useMemo when nodes or edges is a new array (memoStale), and the new
   outputs object makes the effect of lines 318-320 due (effectDue).
   Images have the side MaxSize where the source has 256, and noise the
   cell 1 where the source has 16. *)

Seeds == {0, 1}

NodeKinds == {"createImage", "gradient", "perlin", "combine", "display"}

(* dataByType[type]; seed is Math.floor(Math.random()*9999) *)
dataByType(type, seed) ==
    CASE type = "createImage" -> CreateImageData(MaxSize)
      [] type = "gradient" -> GradientData(MaxSize, "horizontal")
      [] type = "perlin" -> [PerlinData(MaxSize, 1) EXCEPT !.seed = seed]
      [] type = "combine" -> CombineData("add", OpacityDen)
      [] type = "display" -> DisplayData

(* const node: Node = { id, type, position: pos, data: dataByType[type] } *)
EditorNode(d, id) ==
    [id |-> id, type |-> d.type, color |-> d.color, colorB |-> d.colorB,
     direction |-> d.direction, size |-> d.size, scale |-> d.scale,
     seed |-> d.seed, mode |-> d.mode, opacity |-> d.opacity,
     selected |-> FALSE, preview |-> Null]

(* setNodes(nds => nds.concat(node)) of addNode, with id = idRef.current *)
addNode(ns, id, type, seed) == Append(ns, EditorNode(dataByType(type, seed), id))

EditorEdge(id, source, sourceHandle, target, targetHandle) ==
    [id |-> id, source |-> source, sourceHandle |-> sourceHandle,
     target |-> target, targetHandle |-> targetHandle, selected |-> FALSE]

(* reactflow's getEdgeId *)
getEdgeId(c) ==
    "reactflow__edge-" \o ToString(c.source) \o c.sourceHandle \o "-"
        \o ToString(c.target) \o c.targetHandle

(* reactflow's connectionExists *)
connectionExists(c, eds) ==
    \E i \in 1..Len(eds) :
        /\ eds[i].source = c.source
        /\ eds[i].target = c.target
        /\ eds[i].sourceHandle = c.sourceHandle
        /\ eds[i].targetHandle = c.targetHandle

(* addEdge(connection, eds): eds itself when the connection exists *)
addEdge(c, eds) ==
    IF connectionExists(c, eds) THEN eds
    ELSE Append(eds, EditorEdge(getEdgeId(c), c.source, c.sourceHandle,
                                c.target, c.targetHandle))

(* the handles the node components render *)
HasSourceHandle(node) == node.type # "display"

TargetHandles(node) ==
    CASE node.type = "combine" -> {"a", "b"}
      [] node.type = "display" -> {"in"}
      [] OTHER -> {}

(* the four nodes and three edges of the initial demo graph *)
DemoNodes(seed) ==
    addNode(addNode(addNode(addNode(<< >>, 1, "gradient", seed),
                            2, "perlin", seed),
                    3, "combine", seed),
            4, "display", seed)

DemoEdges ==
    <<EditorEdge("e1", 1, "", 3, "a"), EditorEdge("e2", 2, "", 3, "b"),
      EditorEdge("e3", 3, "", 4, "in")>>

(* The state after the mount: the first render ran useMemo on the empty
   lists, the effect of lines 318-320 mapped the empty node list and the
   effect of lines 399-407 added the demo graph. *)
InitEditor ==
    /\ \E seed \in Seeds : nodes = DemoNodes(seed)
    /\ edges = DemoEdges
    /\ idRef = 5
    /\ outputs = evaluateGraph(<< >>, << >>, "throw").outputs
    /\ memoStale = TRUE
    /\ effectDue = FALSE
    /\ ctxOpen = FALSE
    /\ ctxTarget = [kind |-> "pane"]
    /\ ops = 0
    /\ pc = "mounted"
    /\ visited = StartState.visited
    /\ progress = StartState.progress
    /\ idx = StartState.idx
    /\ passes = StartState.passes
    /\ nextRef = StartState.nextRef
    /\ dispatched = StartState.dispatched
    /\ call = NoCall
    /\ ret = KNull

runVars == <<visited, progress, idx, pc, passes, nextRef, dispatched, call, ret>>

(* a user input is handled *)
Input ==
    /\ pc = "mounted"
    /\ ops < MaxOps
    /\ ops' = ops + 1

(* a render is scheduled in which useMemo re-runs; the passive effects of
   the commit before it run first *)
RenderDue == pc = "mounted" /\ memoStale /\ ~effectDue

(* A render after nodes or edges changed: useMemo re-runs evaluateGraph *)
Render ==
    /\ RenderDue
    /\ outputs' = evaluateGraph(nodes, edges, "throw").outputs
    /\ memoStale' = FALSE
    /\ effectDue' = TRUE
    /\ UNCHANGED <<nodes, edges, idRef, ctxOpen, ctxTarget, ops, runVars>>

(* useEffect(() => setNodes(nds => nds.map(n => ({ ...n, data: { ...n.data,
   preview: outputs[n.id] || null } }))), [outputs, setNodes]) *)
InjectPreviews ==
    /\ pc = "mounted"
    /\ effectDue
    /\ nodes' = [i \in 1..Len(nodes) |->
                    [nodes[i] EXCEPT !.preview = getOutput(outputs, nodes[i].id)]]
    /\ effectDue' = FALSE
    /\ memoStale' = TRUE
    /\ UNCHANGED <<edges, outputs, idRef, ctxOpen, ctxTarget, ops, runVars>>

(* onConnect: setEdges(eds => addEdge(connection, eds)), for a connection
   dragged from a source handle to a target handle of rendered nodes *)
onConnect ==
    /\ Input
    /\ \E i, j \in 1..Len(nodes) :
          /\ HasSourceHandle(nodes[i])
          /\ \E h \in TargetHandles(nodes[j]) :
                edges' = addEdge([source |-> nodes[i].id, sourceHandle |-> "out",
                                  target |-> nodes[j].id, targetHandle |-> h],
                                 edges)
    /\ memoStale' = (memoStale \/ edges' # edges)
    /\ UNCHANGED <<nodes, outputs, idRef, ctxOpen, ctxTarget, effectDue, runVars>>

(* a button of the panel: addNode(type) *)
ClickAddNode ==
    /\ Input
    /\ idRef <= MaxId
    /\ \E type \in NodeKinds, seed \in Seeds :
          nodes' = addNode(nodes, idRef, type, seed)
    /\ idRef' = idRef + 1
    /\ memoStale' = TRUE
    /\ UNCHANGED <<edges, outputs, ctxOpen, ctxTarget, effectDue, runVars>>

(* the Clear button: setNodes([]); setEdges([]) *)
Clear ==
    /\ Input
    /\ nodes' = << >>
    /\ edges' = << >>
    /\ memoStale' = TRUE
    /\ UNCHANGED <<outputs, idRef, ctxOpen, ctxTarget, effectDue, runVars>>

(* the keydown handler of the window, for the keys Delete and Backspace:
   setNodes(nds => nds.filter(n => !n.selected));
   setEdges(eds => eds.filter(e => !e.selected)) *)
KeyDelete ==
    /\ Input
    /\ nodes' = SelectSeq(nodes, LAMBDA n : ~n.selected)
    /\ edges' = SelectSeq(edges, LAMBDA e : ~e.selected)
    /\ memoStale' = TRUE
    /\ UNCHANGED <<outputs, idRef, ctxOpen, ctxTarget, effectDue, runVars>>

(* onNodesChange with a select change: a click on a node *)
SelectNode ==
    /\ Input
    /\ \E i \in 1..Len(nodes) :
          nodes' = [nodes EXCEPT ![i].selected = ~nodes[i].selected]
    /\ memoStale' = TRUE
    /\ UNCHANGED <<edges, outputs, idRef, ctxOpen, ctxTarget, effectDue, runVars>>

(* onEdgesChange with a select change: a click on an edge *)
SelectEdge ==
    /\ Input
    /\ \E j \in 1..Len(edges) :
          edges' = [edges EXCEPT ![j].selected = ~edges[j].selected]
    /\ memoStale' = TRUE
    /\ UNCHANGED <<nodes, outputs, idRef, ctxOpen, ctxTarget, effectDue, runVars>>

(* an input of a node component: data.field = value; data.onChange(),
   which is setNodes(n => [...n]) *)
EditField(type, field, values) ==
    /\ Input
    /\ \E i \in 1..Len(nodes), v \in values :
          /\ nodes[i].type = type
          /\ nodes' = [nodes EXCEPT ![i][field] = v]
    /\ memoStale' = TRUE
    /\ UNCHANGED <<edges, outputs, idRef, ctxOpen, ctxTarget, effectDue, runVars>>

EditColor == EditField("createImage", "color", {ColorIndigo, ColorViolet})
EditDirection == EditField("gradient", "direction", {"horizontal", "vertical"})
EditSeed == EditField("perlin", "seed", Seeds)
EditMode == EditField("combine", "mode", {"add", "difference"})
EditOpacity == EditField("combine", "opacity", {0, OpacityDen})

OpenMenu(target) ==
    /\ Input
    /\ ctxTarget' = target
    /\ ctxOpen' = TRUE
    /\ UNCHANGED <<nodes, edges, outputs, idRef, memoStale, effectDue, runVars>>

openPaneMenu == OpenMenu([kind |-> "pane"])

openNodeMenu ==
    \E i \in 1..Len(nodes) : OpenMenu([kind |-> "node", nodeId |-> nodes[i].id])

openEdgeMenu ==
    \E j \in 1..Len(edges) : OpenMenu([kind |-> "edge", edgeId |-> edges[j].id])

(* onMouseLeave of the menu *)
closeMenu ==
    /\ Input
    /\ ctxOpen
    /\ ctxOpen' = FALSE
    /\ UNCHANGED <<nodes, edges, outputs, idRef, ctxTarget, memoStale,
                   effectDue, runVars>>

(* handleCtxAction('add:' + type), an item of the pane menu *)
CtxAddNode ==
    /\ Input
    /\ ctxOpen
    /\ ctxTarget.kind = "pane"
    /\ idRef <= MaxId
    /\ \E type \in NodeKinds, seed \in Seeds :
          nodes' = addNode(nodes, idRef, type, seed)
    /\ idRef' = idRef + 1
    /\ memoStale' = TRUE
    /\ ctxOpen' = FALSE
    /\ UNCHANGED <<edges, outputs, ctxTarget, effectDue, runVars>>

(* handleCtxAction('fit-view') *)
CtxFitView ==
    /\ Input
    /\ ctxOpen
    /\ ctxTarget.kind = "pane"
    /\ ctxOpen' = FALSE
    /\ UNCHANGED <<nodes, edges, outputs, idRef, ctxTarget, memoStale,
                   effectDue, runVars>>

(* handleCtxAction('delete-node'), the item of a node's menu *)
CtxDeleteNode ==
    /\ Input
    /\ ctxOpen
    /\ ctxTarget.kind = "node"
    /\ nodes' = SelectSeq(nodes, LAMBDA n : n.id # ctxTarget.nodeId)
    /\ edges' = SelectSeq(edges, LAMBDA e : e.source # ctxTarget.nodeId
                                            /\ e.target # ctxTarget.nodeId)
    /\ memoStale' = TRUE
    /\ ctxOpen' = FALSE
    /\ UNCHANGED <<outputs, idRef, ctxTarget, effectDue, runVars>>

(* handleCtxAction('delete-edge'), the item of an edge's menu *)
CtxDeleteEdge ==
    /\ Input
    /\ ctxOpen
    /\ ctxTarget.kind = "edge"
    /\ edges' = SelectSeq(edges, LAMBDA e : e.id # ctxTarget.edgeId)
    /\ memoStale' = TRUE
    /\ ctxOpen' = FALSE
    /\ UNCHANGED <<nodes, outputs, idRef, ctxTarget, effectDue, runVars>>

NextEditor ==
    \/ Render
    \/ InjectPreviews
    \/ onConnect
    \/ ClickAddNode
    \/ Clear
    \/ KeyDelete
    \/ SelectNode
    \/ SelectEdge
    \/ EditColor
    \/ EditDirection
    \/ EditSeed
    \/ EditMode
    \/ EditOpacity
    \/ openPaneMenu
    \/ openNodeMenu
    \/ openEdgeMenu
    \/ closeMenu
    \/ CtxAddNode
    \/ CtxFitView
    \/ CtxDeleteNode
    \/ CtxDeleteEdge

(* React runs a scheduled render and the passive effects of a commit: weak
   fairness of Render and of InjectPreviews.  That of Render is written
   out, with RenderDue for ENABLED <<Render>>_vars (a Render step always
   changes memoStale). *)
SpecEditor ==
    /\ InitEditor
    /\ [][NextEditor]_vars
    /\ WF_vars(InjectPreviews)
    /\ ([]<>~RenderDue \/ []<><<Render>>_vars)

----------------------------------------------------------------------------
(* The graph of a run *)

NodeIds == {nodes[i].id : i \in 1..Len(nodes)}

RECURSIVE ReachFrom(_, _)
ReachFrom(S, es) ==
    LET T == S \cup {es[i].target : i \in {j \in 1..Len(es) : es[j].source \in S}}
    IN IF T = S THEN S ELSE ReachFrom(T, es)

(* the ids reachable from n along one or more edges of es *)
Downstream(n, es) ==
    ReachFrom({es[i].target : i \in {j \in 1..Len(es) : es[j].source = n}}, es)

OnCycle(n, es) == n \in Downstream(n, es)

WasDispatched(id) == \E j \in 1..Len(dispatched) : dispatched[j] = id

(* the bytes of an output: size and samples, not the object's identity *)
Bytes(out) ==
    IF out = Null THEN << >> ELSE <<out[1].width, out[1].height, out[1].data>>

SameOutput(o1, o2, n) ==
    /\ (n \in DOMAIN o1) <=> (n \in DOMAIN o2)
    /\ Bytes(getOutput(o1, n)) = Bytes(getOutput(o2, n))

RemoveAt(seq, i) ==
    [k \in 1..(Len(seq) - 1) |-> IF k < i THEN seq[k] ELSE seq[k + 1]]

----------------------------------------------------------------------------
(* C1: when evaluateGraph returns, the mapping has one entry for every node
   of the node list (a buffer or null), none missing. *)
C1_OneEntryPerNode ==
    pc = "done" =>
        /\ DOMAIN outputs = NodeIds
        /\ \A n \in DOMAIN outputs : Len(outputs[n]) <= 1

(* C2: in a graph with a dependency cycle the while loop is entered at most
   |nodes| + 1 times, and a node on a cycle is never dispatched, never
   visited and never given a buffer. *)
C2_CycleNodesNeverEvaluated ==
    \A i \in 1..Len(nodes) :
        OnCycle(nodes[i].id, edges) =>
            /\ passes <= Len(nodes) + 1
            /\ nodes[i].id \notin visited
            /\ ~WasDispatched(nodes[i].id)
            /\ getOutput(outputs, nodes[i].id) = Null

C2_Witness ==
    /\ pc = "done"
    /\ passes >= 2
    /\ \E i, j \in 1..Len(nodes) :
          /\ i # j
          /\ nodes[j].id \in Downstream(nodes[i].id, edges)
          /\ nodes[i].id \in Downstream(nodes[j].id, edges)
    /\ \E n \in visited : outputs[n] # Null

(* C5: after a run has returned, the run on the same graph without one edge
   s -> t gives every node that is neither t nor downstream of t the same
   output (entry or no entry, and the same bytes). *)
C5_EdgeRemovalFrame ==
    pc = "done" =>
        \A i \in 1..Len(edges) : \A oom \in OomOutcomes :
            LET t == edges[i].target
                r == evaluateGraph(nodes, RemoveAt(edges, i), oom)
            IN r.pc = "done" =>
                  \A n \in NodeIds \ ({t} \cup Downstream(t, edges)) :
                      SameOutput(outputs, r.outputs, n)

C5_Witness ==
    /\ pc = "done"
    /\ \E i \in 1..Len(edges) :
          LET t == edges[i].target
              r == evaluateGraph(nodes, RemoveAt(edges, i), "throw")
          IN /\ t \in NodeIds
             /\ ~SameOutput(outputs, r.outputs, t)
             /\ \E n \in NodeIds \ ({t} \cup Downstream(t, edges)) :
                   getOutput(outputs, n) # Null

(* the permutations of 1..n, and a list in the order p *)
Perms(n) == {p \in [1..n -> 1..n] : \A i, j \in 1..n : p[i] = p[j] => i = j}
Permute(seq, p) == [i \in 1..Len(seq) |-> seq[p[i]]]

(* es2 has, for every (target, port) pair, the same first edge as es *)
SameFirstEdges(es, es2) ==
    \A i \in 1..Len(es) :
        FindHandle(Incoming(es, es[i].target), es[i].targetHandle)
            = FindHandle(Incoming(es2, es[i].target), es[i].targetHandle)

KernelTag(node) ==
    IF node.type = "display" THEN "none"
    ELSE Dispatch(node, Incoming(edges, node.id), outputs).tag

(* the node with valid parameters: the run had no error occurred in it *)
Healthy(node) ==
    [node EXCEPT !.size = IF @ <= 0 THEN 1 ELSE @,
                 !.scale = IF @ <= 0 THEN 1 ELSE @]

ReplaceAt(seq, i, v) == [k \in 1..Len(seq) |-> IF k = i THEN v ELSE seq[k]]

(* C3: an error raised by a kernel never stops the run; the node's entry is
   null; every node that is neither the failed node nor downstream of it
   has the output of the run in which that kernel succeeds; and the nodes
   downstream of it are evaluated exactly when they are in that run. *)
C3_KernelErrorIsLocal ==
    /\ pc = "aborted" =>
          KernelTag(nodes[idx]) = "diverge"
    /\ pc = "done" =>
          \A i \in 1..Len(nodes) :
              (nodes[i].id \in visited /\ KernelTag(nodes[i]) \in {"throw", "diverge"}) =>
                  LET f == nodes[i].id
                      r == evaluateGraph(ReplaceAt(nodes, i, Healthy(nodes[i])),
                                         edges, "throw")
                  IN /\ outputs[f] = Null
                     /\ r.outputs[f] # Null
                     /\ \A n \in NodeIds \ ({f} \cup Downstream(f, edges)) :
                           SameOutput(outputs, r.outputs, n)
                     /\ \A n \in NodeIds \cap Downstream(f, edges) :
                           (n \in DOMAIN outputs) <=> (n \in DOMAIN r.outputs)

C3_Witness ==
    /\ pc = "done"
    /\ \E i \in 1..Len(nodes) :
          /\ nodes[i].id \in visited
          /\ KernelTag(nodes[i]) = "throw"
          /\ \E n \in Downstream(nodes[i].id, edges) \cap visited : n # nodes[i].id
          /\ \E n \in visited \ Downstream(nodes[i].id, edges) : outputs[n] # Null

(* C6: a noise node of scale <= 0 that is dispatched gets the entry null,
   and the run goes on to its end. *)
C6_NonPositiveScaleIsAbsence ==
    \A i \in 1..Len(nodes) :
        (nodes[i].type = "perlin" /\ nodes[i].scale <= 0
         /\ WasDispatched(nodes[i].id)) =>
            /\ pc # "aborted"
            /\ nodes[i].id \in DOMAIN outputs
            /\ outputs[nodes[i].id] = Null

(* C7: when evaluateGraph returns, no two entries of the mapping hold the
   same ImageData object. *)
C7_NoSharedBuffer ==
    pc = "done" =>
        \A m, n \in DOMAIN outputs :
            (m # n /\ outputs[m] # Null /\ outputs[n] # Null) =>
                outputs[m][1].ref # outputs[n][1].ref

(* C10: a node is dispatched only when every source of its incoming edges
   already has an entry in outputs, and null is an entry: when the run
   returns, a node with incoming edges whose sources were all evaluated to
   null has been visited and has an entry. *)
C10_DispatchAfterSources ==
    /\ \A j \in 1..Len(dispatched) :
          \A i \in 1..Len(edges) :
              edges[i].target = dispatched[j] =>
                  /\ edges[i].source \in DOMAIN outputs
                  /\ \E k \in 1..(j - 1) : dispatched[k] = edges[i].source
    /\ pc = "done" =>
          \A i \in 1..Len(nodes) :
              LET inc == Incoming(edges, nodes[i].id)
              IN (/\ Len(inc) > 0
                  /\ \A k \in 1..Len(inc) :
                        /\ inc[k].source \in visited
                        /\ outputs[inc[k].source] = Null) =>
                     /\ nodes[i].id \in visited
                     /\ nodes[i].id \in DOMAIN outputs

C10_Witness ==
    /\ pc = "done"
    /\ \E i \in 1..Len(nodes) :
          LET inc == Incoming(edges, nodes[i].id)
          IN /\ Len(inc) > 0
             /\ \A k \in 1..Len(inc) :
                   /\ inc[k].source \in visited
                   /\ inc[k].source # nodes[i].id
                   /\ outputs[inc[k].source] = Null
             /\ nodes[i].id \in visited

----------------------------------------------------------------------------
(* Kernel calls *)

ClampOpacity(on) == Max(0, Min(OpacityDen, on))

(* C8: blendImages gives every colour channel the value
   round(A*(1-o) + f(A,B)*o) with o the opacity clamped into [0,1]. *)
C8_OpacityClamped ==
    (pc = "returned" /\ call.fn = "blend" /\ call.hasA /\ call.hasB) =>
        \A c \in 1..3 :
            ret.data[c] =
                Round(call.A * (OpacityDen - ClampOpacity(call.opacity))
                        + blendChannel(call.A, call.B, call.mode)
                            * ClampOpacity(call.opacity),
                      OpacityDen)

(* C9: a horizontal gradient of width 1, and a vertical gradient of height
   1, has every pixel equal to (colorA.r, colorA.g, colorA.b, 255). *)
C9_DegenerateAxisIsColorA ==
    (/\ pc = "returned"
     /\ call.fn = "gradient"
     /\ \/ call.direction = "horizontal" /\ call.width = 1
        \/ call.direction = "vertical" /\ call.height = 1) =>
        LET a == colorHexToRgb(ColorBlue)
        IN \A p \in 0..(call.width * call.height - 1) :
              /\ ret.data[4 * p + 1] = a.r
              /\ ret.data[4 * p + 2] = a.g
              /\ ret.data[4 * p + 3] = a.b
              /\ ret.data[4 * p + 4] = 255

(* C11: when the loop of evaluateGraph has stopped, a node that was left
   unvisited lies on a dependency cycle or is downstream of an id that lies
   on one. *)
C11_UnvisitedOnlyBehindCycle ==
    pc = "done" =>
        \A n \in NodeIds \ visited :
            \/ OnCycle(n, edges)
            \/ \E i \in 1..Len(edges) :
                  /\ OnCycle(edges[i].source, edges)
                  /\ n \in Downstream(edges[i].source, edges)

(* the graph of the editor: nodes and edges without selection and preview *)
GraphOf(ns, es) ==
    <<[i \in 1..Len(ns) |-> [ns[i] EXCEPT !.selected = FALSE, !.preview = Null]],
      [j \in 1..Len(es) |-> [es[j] EXCEPT !.selected = FALSE]]>>

(* the graph is not the demo graph of the mount: a mutation has been made *)
Mutated == \A seed \in Seeds : GraphOf(nodes, edges) # GraphOf(DemoNodes(seed), DemoEdges)

(* no render has useMemo to re-run and no effect is due *)
Quiescent == ~memoStale /\ ~effectDue

(* C12: after a graph mutation (the user's inputs are finitely many) the
   cycle of evaluateGraph, the preview effect and setNodes comes to rest:
   from some point on no evaluation is pending and no effect is due. *)
C12_PreviewCycleComesToRest == [](Mutated => <>[]Quiescent)

(* C13: every edge of the edge state has a source and a target that are
   ids of nodes of the node state. *)
C13_NoDanglingEdges ==
    pc = "mounted" =>
        \A j \in 1..Len(edges) :
            /\ edges[j].source \in NodeIds
            /\ edges[j].target \in NodeIds

====
